---- MODULE Spec2Model ----
(***************************************************************************)
(* solarbudget: the forecast reconciler (get_solcast_data), the price      *)
(* reconciler (get_pse_prices) and the snapshot tables they read and       *)
(* write, as state machines over a discrete clock.                         *)
(*                                                                         *)
(* Time is counted in minutes since 00:00 of day 0.  A forecast series is  *)
(* a sequence of points [period_end, pv_estimate]; the pv_estimate10 and   *)
(* pv_estimate90 columns travel with pv_estimate through every DataFrame   *)
(* operation used here and are not carried separately.  The aggregator    *)
(* (calculate_energy_value and the totals of index) works on points that   *)
(* carry all three estimates; its amounts are integers chosen so that      *)
(* every product and quotient below is exact, and a missing value (NaN)    *)
(* is the empty sequence, a present value v the sequence <<v>>.            *)
(***************************************************************************)
EXTENDS Integers, Sequences, FiniteSets, TLC

VARIABLES
    now,        \* the wall clock, minutes UTC (datetime.utcnow())
    solcast,    \* table solcast_data: sequence of rows in insertion order
    fret,       \* what the get_solcast_data call of this instant did and returned
    tz,         \* offset of the server's local time from UTC, minutes
    pse,        \* table pse_data: sequence of rows in insertion order
    pret,       \* what the get_pse_prices call of this instant did and returned
    view,       \* what index() computed from the two series at this instant
    reqs,       \* the position of each HTTP request inside index()
    cache,      \* table cache of database.py: sequence of rows
    stored,     \* for each key, the last cache_data call: its value and instant
    cret        \* what the get_cached_data call of this instant returned

vars == <<now, solcast, fret, tz, pse, pret, view, reqs, cache, stored, cret>>

----------------------------------------------------------------------------
(* Bounds of the model *)

MaxStore == 3
MaxPoints == 5
MaxSlots == 4
MaxRequests == 2

(* Program constants *)

StaleMinutes == 30
ExpectedStartHour == 5
SlotMinutes == 15
ReadLimit == 2
PublicationHour == 16

----------------------------------------------------------------------------
(* Calendar arithmetic *)

HM(h, m) == h * 60 + m
DayLen == HM(24, 0)
OnDay(d, t) == d * DayLen + t
DateOf(t) == t \div DayLen
TimeOfDay(t) == t % DayLen
HourOf(t) == TimeOfDay(t) \div 60

\* Timestamp.isoformat(): the instant as calendar fields
IsoFormat(t) == <<DateOf(t), HourOf(t), TimeOfDay(t) % 60>>

\* pd.to_datetime / datetime.fromisoformat of such a string
ParseIso(s) == s[1] * DayLen + s[2] * 60 + s[3]

----------------------------------------------------------------------------
(* Series helpers (pandas index operations) *)

Range(s) == {s[i] : i \in DOMAIN s}

RECURSIVE SeqMin(_)
SeqMin(ts) ==
    IF Len(ts) = 1 THEN ts[1]
    ELSE LET m == SeqMin(Tail(ts)) IN IF ts[1] <= m THEN ts[1] ELSE m

\* df.index.min()
IndexMin(df) == SeqMin([i \in DOMAIN df |-> df[i].period_end])

\* df.index.max()
IndexMax(df) == -SeqMin([i \in DOMAIN df |-> -df[i].period_end])

RECURSIVE InsertSorted(_, _)
InsertSorted(p, s) ==
    IF s = <<>> THEN <<p>>
    ELSE IF s[Len(s)].period_end <= p.period_end THEN Append(s, p)
    ELSE Append(InsertSorted(p, SubSeq(s, 1, Len(s) - 1)), s[Len(s)])

\* df.sort_index(): stable, ascending by period_end
RECURSIVE SortIndex(_)
SortIndex(df) ==
    IF df = <<>> THEN <<>>
    ELSE InsertSorted(df[Len(df)], SortIndex(SubSeq(df, 1, Len(df) - 1)))

\* a cell without a value
NaN == <<>>

\* the columns of a frame built from rows: every key of every row
Columns(rows) == UNION {DOMAIN rows[i] : i \in DOMAIN rows}

\* pd.concat([a, b]): the columns of both, NaN where a row has no such key
Concat(a, b) ==
    LET rows == a \o b
        cols == Columns(rows)
    IN  [i \in DOMAIN rows |->
            [k \in cols |-> IF k \in DOMAIN rows[i] THEN rows[i][k] ELSE NaN]]

\* df.reset_index().to_dict("records") with period_end.isoformat()
ToRecords(df) ==
    [i \in DOMAIN df |->
        [k \in DOMAIN df[i] |->
            IF k = "period_end" THEN IsoFormat(df[i][k]) ELSE df[i][k]]]

\* pd.DataFrame.from_records(data); to_datetime(period_end); set_index
FromRecords(data) ==
    LET cols == Columns(data)
    IN  [i \in DOMAIN data |->
            [k \in cols |->
                IF k \notin DOMAIN data[i] THEN NaN
                ELSE IF k = "period_end" THEN ParseIso(data[i][k])
                ELSE data[i][k]]]

----------------------------------------------------------------------------
(* Tables solcast_data and pse_data *)

RECURSIVE MaxId(_)
MaxId(tbl) ==
    IF tbl = <<>> THEN 0
    ELSE LET m == MaxId(Tail(tbl)) IN IF tbl[1].id > m THEN tbl[1].id ELSE m

\* session.add(Row(timestamp=ts, data=data)); session.commit()
AddRow(tbl, ts, data) ==
    Append(tbl, [id |-> MaxId(tbl) + 1, timestamp |-> ts, data |-> data])

Newer(a, b) ==
    \/ a.timestamp > b.timestamp
    \/ a.timestamp = b.timestamp /\ a.id > b.id

\* query.order_by(timestamp.desc()).limit(n).all()
RECURSIVE RecentRecords(_, _)
RecentRecords(tbl, n) ==
    IF n = 0 \/ tbl = <<>> THEN <<>>
    ELSE LET top == CHOOSE r \in Range(tbl) :
                        \A q \in Range(tbl) : q = r \/ Newer(r, q)
             rest == SelectSeq(tbl, LAMBDA q : q # top)
         IN  <<top>> \o RecentRecords(rest, n - 1)

\* the record check_database_health writes and never removes
HealthCheckData == <<[test |-> "data"]>>

\* isinstance(data, list) and data and "period_end" in data[0]
ValidFormat(data) ==
    /\ Len(data) > 0
    /\ "period_end" \in DOMAIN data[1]

ValidRow(r) == ValidFormat(r.data)

----------------------------------------------------------------------------
(* Upstream forecast provider *)

\* the first period end after t
NextSlot(t) == (t \div SlotMinutes + 1) * SlotMinutes

\* a response's forecasts list: n points from start, spaced step minutes
RawForecast(start, n, step, level) ==
    [i \in 1..n |->
        [period_end |-> start + (i - 1) * step,
         pv_estimate |-> level + 4 * (i - 1)]]

PublishDelays == {0, HM(2, 0)}
NativeSteps == {SlotMinutes, 2 * SlotMinutes}
PointCounts == {MaxPoints}
Levels == {10}

ForecastResponses(t) ==
    {[ok |-> TRUE, forecasts |-> RawForecast(NextSlot(t) + d, n, st, lv)] :
        d \in PublishDelays, n \in PointCounts, st \in NativeSteps, lv \in Levels}
    \cup {[ok |-> FALSE, forecasts |-> <<>>]}

\* linear interpolation of the raw points at instant t
InterpolateAt(raw, t) ==
    LET a == CHOOSE p \in Range(raw) :
                 /\ p.period_end <= t
                 /\ \A q \in Range(raw) :
                        q.period_end <= t => q.period_end <= p.period_end
        b == CHOOSE p \in Range(raw) :
                 /\ p.period_end >= t
                 /\ \A q \in Range(raw) :
                        q.period_end >= t => q.period_end >= p.period_end
    IN  IF a.period_end = b.period_end THEN a.pv_estimate
        ELSE a.pv_estimate
             + ((b.pv_estimate - a.pv_estimate) * (t - a.period_end))
               \div (b.period_end - a.period_end)

\* a grid that starts one slot after the first point
Resample15_Late(raw) ==
    LET lo == (IndexMin(raw) \div SlotMinutes + 1) * SlotMinutes
        hi == (IndexMax(raw) \div SlotMinutes) * SlotMinutes
        n  == (hi - lo) \div SlotMinutes + 1
    IN  [i \in 1..n |->
            [period_end |-> lo + (i - 1) * SlotMinutes,
             pv_estimate |-> InterpolateAt(raw, lo + (i - 1) * SlotMinutes)]]

\* df.set_index("period_end").resample("15min").interpolate()
Resample15(raw) ==
    LET lo == (IndexMin(raw) \div SlotMinutes) * SlotMinutes
        hi == (IndexMax(raw) \div SlotMinutes) * SlotMinutes
        n  == (hi - lo) \div SlotMinutes + 1
    IN  [i \in 1..n |->
            [period_end |-> lo + (i - 1) * SlotMinutes,
             pv_estimate |-> InterpolateAt(raw, lo + (i - 1) * SlotMinutes)]]

----------------------------------------------------------------------------
(* get_solcast_data *)

\* a threshold that also refetches at exactly 30 minutes
ShouldFetchForecast_AtThreshold(latest, current_time) ==
    \/ latest = <<>>
    \/ current_time - latest[1].timestamp >= StaleMinutes

\* latest_data is None or current_time - latest_data.timestamp > 30 min
ShouldFetchForecast(latest, current_time) ==
    \/ latest = <<>>
    \/ current_time - latest[1].timestamp > StaleMinutes

\* earliest_time.time() > expected_start.time()
StartsLate(earliest_time, current_date) ==
    LET expected_start == OnDay(current_date, HM(ExpectedStartHour, 0))
    IN  TimeOfDay(earliest_time) > TimeOfDay(expected_start)

\* a filter that forgets the date condition
MorningData_AnyDate(prev_df, current_date, earliest_time) ==
    SelectSeq(prev_df, LAMBDA p : p.period_end < earliest_time)

\* a filter that also takes the point at earliest_time
MorningData_Inclusive(prev_df, current_date, earliest_time) ==
    SelectSeq(prev_df, LAMBDA p :
        /\ DateOf(p.period_end) = current_date
        /\ p.period_end <= earliest_time)

\* prev_df[(prev_df.index.date == current_date) & (prev_df.index < earliest_time)]
MorningData(prev_df, current_date, earliest_time) ==
    SelectSeq(prev_df, LAMBDA p :
        /\ DateOf(p.period_end) = current_date
        /\ p.period_end < earliest_time)

\* the rows of the previous snapshot a backfill pass would merge into df
MorningOf(df, previous, current_date) ==
    IF StartsLate(IndexMin(df), current_date) /\ previous # <<>>
    THEN MorningData(FromRecords(previous[1].data), current_date, IndexMin(df))
    ELSE <<>>

\* pd.concat([morning_data, df]).sort_index() when morning_data is not empty
Backfilled(df, previous, current_date) ==
    LET morning_data == MorningOf(df, previous, current_date)
    IN  IF morning_data # <<>> THEN SortIndex(Concat(morning_data, df)) ELSE df

\* a second pass that saves after every fetch, merged or not
SecondPassSaves_Always(df, previous, current_date, should_fetch_new) ==
    should_fetch_new

\* the second pass writes a snapshot when it merged and should_fetch_new is set
SecondPassSaves(df, previous, current_date, should_fetch_new) ==
    /\ MorningOf(df, previous, current_date) # <<>>
    /\ should_fetch_new

NoForecastCall ==
    [called |-> FALSE, should_fetch_new |-> FALSE, upstream_calls |-> 0,
     fetch_ok |-> FALSE,
     latest |-> <<>>, previous |-> <<>>, candidate |-> <<>>, df |-> <<>>,
     written |-> <<>>, before |-> <<>>, after |-> <<>>]

\* what one call does to the table and returns, step by step
SolcastCall(tbl, current_time, resp) ==
    LET recent_records == RecentRecords(tbl, ReadLimit)
        valid    == SelectSeq(recent_records, ValidRow)
        latest   == IF Len(valid) >= 1 THEN <<valid[1]>> ELSE <<>>
        previous == IF Len(valid) >= 2 THEN <<valid[2]>> ELSE <<>>
        \* session.delete(record) for each invalid record read; session.commit()
        kept == SelectSeq(tbl, LAMBDA r :
                    ~(r \in Range(recent_records) /\ ~ValidRow(r)))
        current_date == DateOf(current_time)
        should_fetch_new == ShouldFetchForecast(latest, current_time)
        fetch_ok == should_fetch_new /\ resp.ok
        \* the series before any backfill
        candidate ==
            IF fetch_ok THEN Resample15(resp.forecasts)
            ELSE IF latest # <<>> THEN FromRecords(latest[1].data)
            ELSE <<>>
    IN  IF candidate = <<>>
        THEN \* fetch failed and nothing cached: return pd.DataFrame()
             [called |-> TRUE, should_fetch_new |-> should_fetch_new,
              upstream_calls |-> IF should_fetch_new THEN 1 ELSE 0,
              fetch_ok |-> fetch_ok, latest |-> latest, previous |-> previous,
              candidate |-> <<>>, df |-> <<>>, written |-> <<>>,
              before |-> tbl, after |-> kept]
        ELSE
        LET \* first pass, inside the fetch branch, then the save
            df1 == IF fetch_ok
                   THEN Backfilled(candidate, previous, current_date)
                   ELSE candidate
            written1 == IF fetch_ok THEN <<ToRecords(df1)>> ELSE <<>>
            \* second pass, regardless of data source
            df2 == Backfilled(df1, previous, current_date)
            written2 ==
                IF SecondPassSaves(df1, previous, current_date, should_fetch_new)
                THEN <<ToRecords(df2)>> ELSE <<>>
            datas == written1 \o written2
            tbl1 == IF Len(datas) >= 1 THEN AddRow(kept, current_time, datas[1])
                    ELSE kept
            tbl2 == IF Len(datas) >= 2 THEN AddRow(tbl1, current_time, datas[2])
                    ELSE tbl1
        IN  [called |-> TRUE, should_fetch_new |-> should_fetch_new,
             upstream_calls |-> IF should_fetch_new THEN 1 ELSE 0,
             fetch_ok |-> fetch_ok, latest |-> latest, previous |-> previous,
             candidate |-> candidate, df |-> df2,
             written |-> [i \in 1..Len(datas) |-> tbl2[Len(kept) + i]],
             before |-> tbl, after |-> tbl2]

GetSolcastData(resp) ==
    \E r \in {SolcastCall(solcast, now, resp)} :
        /\ Len(r.after) <= MaxStore
        /\ solcast' = r.after
        /\ fret' = r
        /\ UNCHANGED <<now, tz, pse, pret, view, reqs, cache, stored, cret>>

\* index() -> get_solcast_data(), one upstream outcome per call
ForecastRequest ==
    \E resp \in ForecastResponses(now) : GetSolcastData(resp)

\* check_database_health at start-up: adds the test row and commits it
\* (the rollback after the commit undoes nothing)
CheckDatabaseHealth ==
    /\ Len(solcast) < MaxStore
    /\ \A r \in Range(solcast) : r.timestamp < now
    /\ solcast' = AddRow(solcast, now, HealthCheckData)
    /\ fret' = NoForecastCall
    /\ UNCHANGED <<now, tz, pse, pret, view, reqs, cache, stored, cret>>

----------------------------------------------------------------------------
(* Upstream price provider *)

\* a JSON value of a price field: a number, a text that is no number, null
JsonNumber(n) == [type |-> "number", v |-> n]
JsonText == [type |-> "string", v |-> 0]
JsonNull == [type |-> "null", v |-> 0]

\* a record of the rce-pln report: the day, the period "HH:MM - HH:MM", the price
PriceRecord(d, i) ==
    [doba |-> d,
     udtczas_oreb |-> <<HM(i - 1, 0), HM(i, 0)>>,
     rce_pln |-> JsonNumber(100 * (d + 1) + i)]

\* a record under the field names of the later report version
PriceRecordV2(d, i) ==
    [business_date |-> d,
     dtime |-> OnDay(d, HM(i, 0)),
     rce_pln |-> JsonNumber(100 * (d + 1) + i)]

MaxPrices == 2

PriceValues(d) ==
    {<<>>,
     [i \in 1..MaxPrices |-> PriceRecord(d, i)],
     [i \in 1..MaxPrices |-> PriceRecordV2(d, i)],
     [i \in 1..MaxPrices |->
         IF i = 1 THEN PriceRecordV2(d, i) ELSE PriceRecord(d, i)]}

\* status "error": requests raises RequestException (network, HTTP status);
\* status "malformed": the body is not an object with key "value"
PriceResponses(d) ==
    {[status |-> "ok", value |-> v] : v \in PriceValues(d)}
    \cup {[status |-> "error", value |-> <<>>],
          [status |-> "malformed", value |-> <<>>]}

\* an item of "value" that is no object
NonRecordItem == [scalar |-> 0]

\* the records one report position can hold: well formed with a period of an
\* hour, of a quarter, or a plain time; under the later field names; and
\* malformed in one way each
RecordKinds(d, i) ==
    LET r == PriceRecord(d, i)
    IN  {r,
         [r EXCEPT !.udtczas_oreb = <<HM(i - 1, 0), HM(i - 1, SlotMinutes)>>],
         [r EXCEPT !.udtczas_oreb = <<HM(i - 1, 0)>>],
         PriceRecordV2(d, i),
         NonRecordItem,
         [doba |-> r.doba, udtczas_oreb |-> r.udtczas_oreb],
         [r EXCEPT !.udtczas_oreb = <<>>],
         [r EXCEPT !.rce_pln = JsonText],
         [r EXCEPT !.rce_pln = JsonNull]}

\* reports with one position of any kind among well-formed records, and
\* reports with no well-formed record
FormatValues(d) ==
    UNION {{[i \in 1..MaxPrices |-> IF i = k THEN r ELSE PriceRecord(d, i)] :
               r \in RecordKinds(d, k)} : k \in 1..MaxPrices}
    \cup {[i \in 1..MaxPrices |-> NonRecordItem],
          [i \in 1..MaxPrices |-> PriceRecordV2(d, i)]}

\* status "list": the body is a JSON list of records, not an object
FormatResponses(d) ==
    {[status |-> "ok", value |-> v] : v \in FormatValues(d)}
    \cup {[status |-> "list",
           value |-> [i \in 1..MaxPrices |-> PriceRecord(d, i)]],
          [status |-> "error", value |-> <<>>]}

TomorrowResponses(d) ==
    {[status |-> "ok", value |-> [i \in 1..MaxPrices |-> PriceRecord(d, i)]],
     [status |-> "ok",
      value |-> [i \in 1..MaxPrices |->
                    IF i = 1 THEN [PriceRecord(d, i) EXCEPT !.rce_pln = JsonNull]
                    ELSE PriceRecord(d, i)]],
     [status |-> "error", value |-> <<>>]}

\* payloads in pse_data: written by this version (ISO), by an earlier one
\* (old format), or damaged; one such item among ISO items, or all damaged
StoredPayloads(d) ==
    LET iso(i) == [datetime |-> IsoFormat(OnDay(d, HM(i - 1, 0))),
                   price |-> 100 * (d + 1) + i]
        old(i) == [iso(i) EXCEPT !.datetime = <<d, i - 1, 0, i, 0>>]
        bad(i) == [iso(i) EXCEPT !.datetime = <<>>]
    IN  {[i \in 1..MaxPrices |-> iso(i)], [i \in 1..MaxPrices |-> bad(i)]}
        \cup {[i \in 1..MaxPrices |-> IF i = k THEN old(i) ELSE iso(i)] :
                 k \in 1..MaxPrices}
        \cup {[i \in 1..MaxPrices |-> IF i = k THEN bad(i) ELSE iso(i)] :
                 k \in 1..MaxPrices}

----------------------------------------------------------------------------
(* get_pse_prices *)

\* a time text is "HH:MM - HH:MM" (two times), "HH:MM" (one) or no time at all
\* " - " in time_str
IsRange(time_str) == Len(time_str) = 2

\* strptime(f"{date_str} {time_str}", "%Y-%m-%d %H:%M") raises no ValueError
TimeParses(time_str) == Len(time_str) \in {1, 2}

\* a parse that keeps the end of the period
ParsePseDatetime_End(date_str, time_str) ==
    OnDay(date_str, time_str[Len(time_str)])

\* parse_pse_datetime(date_str, time_str): the start of the period on that day
ParsePseDatetime(date_str, time_str) ==
    LET start == IF IsRange(time_str) THEN SubSeq(time_str, 1, 1) ELSE time_str
    IN  OnDay(date_str, start[1])

\* isinstance(item, dict)
IsDict(item) == "scalar" \notin DOMAIN item

\* item["doba"], item["udtczas_oreb"], item["rce_pln"] raise no KeyError
HasPriceKeys(item) ==
    {"doba", "udtczas_oreb", "rce_pln"} \subseteq DOMAIN item

\* float(x): the number, ValueError for a text, TypeError for null
Float(x) == x.v

\* the body of the loop over data["value"] for one item: the point is appended,
\* the item is skipped (continue, KeyError, ValueError), or TypeError escapes
ItemOutcome(item) ==
    IF ~IsDict(item) THEN "skip"
    ELSE IF ~HasPriceKeys(item) THEN "skip"
    ELSE IF ~TimeParses(item.udtczas_oreb) THEN "skip"
    ELSE IF item.rce_pln.type = "string" THEN "skip"
    ELSE IF item.rce_pln.type = "null" THEN "raise"
    ELSE "append"

Appended(item) == ItemOutcome(item) = "append"

ItemsRaise(value) == \E i \in DOMAIN value : ItemOutcome(value[i]) = "raise"

\* the loop over data["value"]: records that raise KeyError or ValueError are
\* skipped
ParsePriceItems(value) ==
    LET good == SelectSeq(value, Appended)
    IN  [i \in DOMAIN good |->
            [datetime |-> IsoFormat(ParsePseDatetime(good[i].doba,
                                                     good[i].udtczas_oreb)),
             price |-> Float(good[i].rce_pln)]]

\* a stored datetime text is ISO "YYYY-MM-DDTHH:MM:SS" (date, hour, minute),
\* of the old format "YYYY-MM-DD-HH:MM - HH:MM" (date and two times), or
\* neither
\* datetime.fromisoformat(dt_str) raises no ValueError
IsIsoString(dt_str) == Len(dt_str) = 3

\* " - " in dt_str
IsOldFormat(dt_str) == Len(dt_str) = 5

\* dt_str.split("-", 3): the date and the start of the period
ParseOldFormat(dt_str) == OnDay(dt_str[1], HM(dt_str[2], dt_str[3]))

\* {datetime.fromisoformat(item["datetime"]).date() for item in latest_data.data}
CachedDates(data) == {DateOf(ParseIso(data[i].datetime)) : i \in DOMAIN data}

\* the comprehension above has no handler: one text that is not ISO raises
CachedDatesRaise(data) ==
    \E i \in DOMAIN data : ~IsIsoString(data[i].datetime)

\* the branch of the decision that reads the dates of the stored payload
ReadsCachedDates(latest, current_time) ==
    /\ latest # <<>>
    /\ ~(DateOf(latest[1].timestamp) < DateOf(current_time))
    /\ HourOf(current_time) >= PublicationHour

\* a cutoff that starts only after the publication hour has passed
ShouldFetchPrices_AfterHour(latest, current_time) ==
    \/ latest = <<>>
    \/ DateOf(latest[1].timestamp) < DateOf(current_time)
    \/ /\ HourOf(current_time) > PublicationHour
       /\ DateOf(current_time + DayLen) \notin CachedDates(latest[1].data)

\* the staleness decision of get_pse_prices
ShouldFetchPrices(latest, current_time) ==
    \/ latest = <<>>
    \/ DateOf(latest[1].timestamp) < DateOf(current_time)
    \/ /\ HourOf(current_time) >= PublicationHour
       /\ DateOf(current_time + DayLen) \notin CachedDates(latest[1].data)

\* the body of the loop over latest_data.data raises nothing for this item
CachedItemParses(item) ==
    IsOldFormat(item.datetime) \/ IsIsoString(item.datetime)

ParseCachedDatetime(dt_str) ==
    IF IsOldFormat(dt_str) THEN ParseOldFormat(dt_str) ELSE ParseIso(dt_str)

\* the cached payload, each datetime parsed and formatted again; an item that
\* raises is left out
ParseCached(data) ==
    LET good == SelectSeq(data, CachedItemParses)
    IN  [i \in DOMAIN good |->
            [datetime |-> IsoFormat(ParseCachedDatetime(good[i].datetime)),
             price |-> good[i].price]]

\* a fallback that gives up instead of serving the stored payload
PriceFallback_Empty(latest) == <<>>

\* return latest_data.data if latest_data else []
PriceFallback(latest) == IF latest # <<>> THEN latest[1].data ELSE <<>>

\* a second request that waits until the publication hour has passed
WithTomorrow_After(current_time) == HourOf(current_time) > PublicationHour

\* if current_time.hour >= 16: the request for tomorrow is made as well
WithTomorrow(current_time) == HourOf(current_time) >= PublicationHour

\* isinstance(data, dict) and "value" in data
IsValueObject(response) == response.status = "ok"

NoPriceCall ==
    [called |-> FALSE, should_fetch_new |-> FALSE, upstream_calls |-> 0,
     outcome |-> "none", today |-> <<>>, combined |-> <<>>, result |-> <<>>,
     latest |-> <<>>, written |-> <<>>, before |-> <<>>, after |-> <<>>,
     raised |-> FALSE, requests |-> <<>>]

\* what one call does to the table and returns
PseCall(tbl, utcnow, current_time, rtoday, rtomorrow) ==
    LET latest == RecentRecords(tbl, 1)
        start == [NoPriceCall EXCEPT !.called = TRUE, !.latest = latest,
                                     !.before = tbl, !.after = tbl]
        should_fetch_new == ShouldFetchPrices(latest, current_time)
        cached == IF should_fetch_new THEN <<>> ELSE ParseCached(latest[1].data)
        base == [start EXCEPT !.should_fetch_new = should_fetch_new]
        with_tomorrow == WithTomorrow(current_time)
        first == [date |-> DateOf(current_time), response |-> rtoday]
        second == [date |-> DateOf(current_time + DayLen),
                   response |-> rtomorrow]
        one == [base EXCEPT !.upstream_calls = 1, !.requests = <<first>>]
        two == [base EXCEPT !.upstream_calls = 2,
                            !.requests = <<first, second>>]
        done == IF with_tomorrow THEN two ELSE one
        today == ParsePriceItems(rtoday.value)
        prices == IF with_tomorrow /\ IsValueObject(rtomorrow)
                  THEN today \o ParsePriceItems(rtomorrow.value)
                  ELSE today
        saved == AddRow(tbl, utcnow, prices)
    IN  IF ReadsCachedDates(latest, current_time)
           /\ CachedDatesRaise(latest[1].data)
        THEN [start EXCEPT !.outcome = "raised", !.raised = TRUE]
        ELSE IF cached # <<>>
        THEN [base EXCEPT !.outcome = "cached", !.result = cached]
        ELSE IF rtoday.status = "error"
        THEN [one EXCEPT !.outcome = "today_error",
                         !.result = PriceFallback(latest)]
        ELSE IF ~IsValueObject(rtoday)
        THEN [one EXCEPT !.outcome = "today_malformed",
                         !.result = PriceFallback(latest)]
        ELSE IF ItemsRaise(rtoday.value)
        THEN [one EXCEPT !.outcome = "raised", !.raised = TRUE]
        ELSE IF with_tomorrow /\ rtomorrow.status = "error"
        THEN [two EXCEPT !.outcome = "tomorrow_error", !.today = today,
                         !.result = PriceFallback(latest)]
        ELSE IF with_tomorrow /\ IsValueObject(rtomorrow)
                /\ ItemsRaise(rtomorrow.value)
        THEN [two EXCEPT !.outcome = "raised", !.raised = TRUE,
                         !.today = today]
        ELSE IF prices = <<>>
        THEN [done EXCEPT !.outcome = "no_prices", !.today = today,
                          !.result = PriceFallback(latest)]
        ELSE [done EXCEPT !.outcome = "fetched", !.today = today,
                          !.combined = prices, !.result = prices,
                          !.written = <<saved[Len(saved)]>>,
                          !.after = saved]

GetPsePrices(rtoday, rtomorrow) ==
    \E r \in {PseCall(pse, now, now + tz, rtoday, rtomorrow)} :
        /\ Len(r.after) <= MaxStore
        /\ pse' = r.after
        /\ pret' = r
        /\ UNCHANGED <<now, tz, solcast, fret, view, reqs, cache, stored, cret>>

\* index() -> get_pse_prices(), one upstream outcome per request made
PriceRequest ==
    \E rtoday \in PriceResponses(DateOf(now + tz)) :
        \E rtomorrow \in PriceResponses(DateOf(now + tz + DayLen)) :
            GetPsePrices(rtoday, rtomorrow)

----------------------------------------------------------------------------
(* calculate_energy_value *)

KWhPerMWh == 1000

Num(x) == <<x>>

\* x * 0.25: a power held for a quarter of an hour, as energy
Quarter(x) == (x * SlotMinutes) \div 60

RECURSIVE Sum(_)
Sum(xs) == IF xs = <<>> THEN 0 ELSE Head(xs) + Sum(Tail(xs))

\* pd.to_datetime(datetime).dt.tz_localize("Europe/Warsaw"); set_index: the
\* instant of a local wall-clock time, minutes UTC
PricesFrame(prices, utcoffset) ==
    [i \in DOMAIN prices |->
        [datetime |-> ParseIso(prices[i].datetime) - utcoffset,
         price |-> prices[i].price]]

FirstPrice(prices_df) == SeqMin([i \in DOMAIN prices_df |-> prices_df[i].datetime])
LastPrice(prices_df) == -SeqMin([i \in DOMAIN prices_df |-> -prices_df[i].datetime])

\* prices_df.resample("15min").ffill() read at instant t: the grid runs from
\* the first price to the last one, each grid point takes the latest price at
\* or before it; an instant outside the grid has no row
ResampledPrice(prices_df, t) ==
    IF \/ prices_df = <<>>
       \/ t % SlotMinutes # 0
       \/ t < FirstPrice(prices_df)
       \/ t > LastPrice(prices_df)
    THEN NaN
    ELSE LET k == CHOOSE i \in DOMAIN prices_df :
                     /\ prices_df[i].datetime <= t
                     /\ \A j \in DOMAIN prices_df :
                           prices_df[j].datetime <= t
                               => prices_df[j].datetime <= prices_df[i].datetime
         IN  Num(prices_df[k].price)

\* solar_data_df["pv_estimate"] * prices_df["price"] / 1000 * 0.25, aligned on
\* the index: NaN where the resampled prices have no row
SlotValue(pv_estimate, price) ==
    IF price = NaN THEN NaN
    ELSE Num(Quarter((pv_estimate * price[1]) \div KWhPerMWh))

CalculateEnergyValue(solar_data_df, prices, utcoffset) ==
    LET prices_df == PricesFrame(prices, utcoffset)
    IN  [i \in DOMAIN solar_data_df |->
            [period_end |-> solar_data_df[i].period_end,
             pv_estimate |-> solar_data_df[i].pv_estimate,
             pv_estimate10 |-> solar_data_df[i].pv_estimate10,
             pv_estimate90 |-> solar_data_df[i].pv_estimate90,
             value |-> SlotValue(solar_data_df[i].pv_estimate,
                                 ResampledPrice(prices_df,
                                                solar_data_df[i].period_end))]]

----------------------------------------------------------------------------
(* index: the valued points and the totals *)

\* Timestamp.isoformat() of an aware timestamp: local date, hour, minute and
\* the offset; datetime.fromisoformat gives the instant back
IsoFormatTz(t, utcoffset) ==
    <<DateOf(t + utcoffset), HourOf(t + utcoffset),
      TimeOfDay(t + utcoffset) % 60, utcoffset>>
ParseIsoTz(s) == OnDay(s[1], HM(s[2], s[3])) - s[4]

\* a day boundary taken at midnight UTC
LocalDate_Utc(t, utcoffset) == DateOf(t)

\* .astimezone(local_tz).date(), index.tz_convert(local_tz).date
LocalDate(t, utcoffset) == DateOf(t + utcoffset)

\* solar_data.reset_index().to_dict("records") with period_end.isoformat()
SolarDataDict(solar_data, utcoffset) ==
    [i \in DOMAIN solar_data |->
        [solar_data[i] EXCEPT
            !.period_end = IsoFormatTz(solar_data[i].period_end, utcoffset)]]

\* the records whose period_end falls on the given local day
RecordsOn(records, day, utcoffset) ==
    SelectSeq(records,
              LAMBDA r : LocalDate(ParseIsoTz(r.period_end), utcoffset) = day)

\* solar_data[solar_data.index.tz_convert(local_tz).date == day]; also the
\* rows of one bin of resample("D")
RowsOn(solar_data, day, utcoffset) ==
    SelectSeq(solar_data,
              LAMBDA r : LocalDate(r.period_end, utcoffset) = day)

\* resample("D"): one bin for each local day from the first row to the last
DayBins(solar_data, utcoffset) ==
    LocalDate(IndexMin(solar_data), utcoffset)
        .. LocalDate(IndexMax(solar_data), utcoffset)

\* fillna(d)
FillNa(x, d) == IF x = NaN THEN d ELSE x[1]

\* solar_data["value"] / solar_data["pv_estimate"].replace(0, float("nan"))
ValueRatio(row) ==
    IF row.pv_estimate = 0 \/ row.value = NaN THEN NaN
    ELSE Num(row.value[1] \div row.pv_estimate)

\* solar_data["value10"], solar_data["value90"]
ValuePercentiles(solar_data) ==
    [i \in DOMAIN solar_data |->
        [period_end |-> solar_data[i].period_end,
         pv_estimate |-> solar_data[i].pv_estimate,
         pv_estimate10 |-> solar_data[i].pv_estimate10,
         pv_estimate90 |-> solar_data[i].pv_estimate90,
         value |-> solar_data[i].value,
         value10 |-> solar_data[i].pv_estimate10
                        * FillNa(ValueRatio(solar_data[i]), 0),
         value90 |-> solar_data[i].pv_estimate90
                        * FillNa(ValueRatio(solar_data[i]), 0)]]

\* a column of the frame, row by row
Column(rows, name) == [i \in DOMAIN rows |-> rows[i][name]]

\* [column].sum() * 0.25
Energy(rows) == Quarter(Sum(Column(rows, "pv_estimate")))
Energy10(rows) == Quarter(Sum(Column(rows, "pv_estimate10")))
Energy90(rows) == Quarter(Sum(Column(rows, "pv_estimate90")))

\* ["value"].sum(): a missing value adds nothing
ValueSum(rows) == Sum([i \in DOMAIN rows |-> FillNa(rows[i].value, 0)])

\* daily_totals_dict
DailyTotals(solar_data, utcoffset) ==
    [day \in DayBins(solar_data, utcoffset) |->
        LET rows == RowsOn(solar_data, day, utcoffset)
        IN  [energy |-> Energy(rows),
             energy10 |-> Energy10(rows),
             energy90 |-> Energy90(rows),
             value |-> ValueSum(rows),
             value10 |-> Sum(Column(rows, "value10")),
             value90 |-> Sum(Column(rows, "value90"))]]

\* a split that leaves out the point of this very instant
ProducedData_Before(today_data, current_time) ==
    SelectSeq(today_data, LAMBDA r : r.period_end < current_time)

\* today_data[today_data.index <= current_time]
ProducedData(today_data, current_time) ==
    SelectSeq(today_data, LAMBDA r : r.period_end <= current_time)

\* today_data[today_data.index > current_time]
RemainingData(today_data, current_time) ==
    SelectSeq(today_data, LAMBDA r : r.period_end > current_time)

\* datetime.fromisoformat(price["datetime"]).astimezone(local_tz): the naive
\* time is read as the server's local time, which is Europe/Warsaw here
PriceInstant(price, utcoffset) == ParseIso(price.datetime) - utcoffset

\* the prices whose datetime falls on the given local day
PricesOn(prices, day, utcoffset) ==
    SelectSeq(prices,
              LAMBDA p : LocalDate(PriceInstant(p, utcoffset), utcoffset) = day)

\* list.sort(key=lambda x: x["datetime"]): stable, ascending; ISO texts of one
\* layout order as their times do
RECURSIVE InsertPrice(_, _)
InsertPrice(p, s) ==
    IF s = <<>> THEN <<p>>
    ELSE IF ParseIso(s[Len(s)].datetime) <= ParseIso(p.datetime)
    THEN Append(s, p)
    ELSE Append(InsertPrice(p, SubSeq(s, 1, Len(s) - 1)), s[Len(s)])

RECURSIVE SortPrices(_)
SortPrices(prices) ==
    IF prices = <<>> THEN <<>>
    ELSE InsertPrice(prices[Len(prices)],
                     SortPrices(SubSeq(prices, 1, Len(prices) - 1)))

\* current_time.replace(minute=0, second=0, microsecond=0)
CurrentHour(current_time, utcoffset) ==
    current_time - ((current_time + utcoffset) % 60)

Abs(x) == IF x < 0 THEN -x ELSE x

\* abs((datetime - current_hour).total_seconds()) for each price of today
TimeDiffs(prices_today, current_hour, utcoffset) ==
    [i \in DOMAIN prices_today |->
        Abs(PriceInstant(prices_today[i], utcoffset) - current_hour)]

\* a choice of the last of the closest entries
CurrentPrice_Last(prices_today, current_hour, utcoffset) ==
    IF prices_today = <<>> THEN <<>>
    ELSE LET time_diffs == TimeDiffs(prices_today, current_hour, utcoffset)
             k == CHOOSE i \in DOMAIN time_diffs :
                      /\ time_diffs[i] = SeqMin(time_diffs)
                      /\ \A j \in DOMAIN time_diffs :
                            time_diffs[j] = SeqMin(time_diffs) => j <= i
         IN  <<prices_today[k]>>

\* prices_today[time_diffs.index(min(time_diffs))], None without prices
CurrentPrice(prices_today, current_hour, utcoffset) ==
    IF prices_today = <<>> THEN <<>>
    ELSE LET time_diffs == TimeDiffs(prices_today, current_hour, utcoffset)
             k == CHOOSE i \in DOMAIN time_diffs :
                      /\ time_diffs[i] = SeqMin(time_diffs)
                      /\ \A j \in DOMAIN time_diffs :
                            time_diffs[j] = SeqMin(time_diffs) => i <= j
         IN  <<prices_today[k]>>

NoView ==
    [called |-> FALSE, status |-> 0, today |-> 0, current_time |-> 0,
     forecast |-> <<>>, prices |-> <<>>, valued |-> <<>>,
     solar_data |-> <<>>,
     solar_data_today |-> <<>>, solar_data_tomorrow |-> <<>>,
     prices_today |-> <<>>, prices_tomorrow |-> <<>>,
     current_price |-> <<>>, daily_totals |-> <<>>,
     produced_energy |-> 0, produced_energy10 |-> 0, produced_energy90 |-> 0,
     remaining_energy |-> 0, remaining_energy10 |-> 0,
     remaining_energy90 |-> 0]

\* what index() hands to the template, given the series of the two reconcilers
IndexView(solar, prices, current_time, utcoffset) ==
    LET valued == CalculateEnergyValue(solar, prices, utcoffset)
        solar_data_dict == SolarDataDict(valued, utcoffset)
        today == LocalDate(current_time, utcoffset)
        solar_data == ValuePercentiles(valued)
        prices_today == SortPrices(PricesOn(prices, today, utcoffset))
        today_data == RowsOn(solar_data, today, utcoffset)
        produced_data == ProducedData(today_data, current_time)
        remaining_data == RemainingData(today_data, current_time)
        start == [NoView EXCEPT !.called = TRUE, !.today = today,
                                !.current_time = current_time,
                                !.forecast = solar, !.prices = prices]
    IN  IF solar = <<>> \/ prices = <<>>
        THEN [start EXCEPT !.status = 500]
        ELSE [start EXCEPT
                !.status = 200,
                !.valued = valued,
                !.solar_data = solar_data,
                !.solar_data_today =
                    RecordsOn(solar_data_dict, today, utcoffset),
                !.solar_data_tomorrow =
                    RecordsOn(solar_data_dict, today + 1, utcoffset),
                !.prices_today = prices_today,
                !.prices_tomorrow =
                    SortPrices(PricesOn(prices, today + 1, utcoffset)),
                !.current_price =
                    CurrentPrice(prices_today,
                                 CurrentHour(current_time, utcoffset),
                                 utcoffset),
                !.daily_totals = DailyTotals(solar_data, utcoffset),
                !.produced_energy = Energy(produced_data),
                !.produced_energy10 = Energy10(produced_data),
                !.produced_energy90 = Energy90(produced_data),
                !.remaining_energy = Energy(remaining_data),
                !.remaining_energy10 = Energy10(remaining_data),
                !.remaining_energy90 = Energy90(remaining_data)]

----------------------------------------------------------------------------
(* Requests on the event loop *)

Requests == 1..MaxRequests

\* a request is "idle" (not sent), "pending" (accepted by the server, index()
\* not yet called), "solcast_wait" (inside requests.get of get_solcast_data),
\* "prices" (get_solcast_data has returned), "pse_wait" (inside requests.get
\* of get_pse_prices) or "done"; seen_* is the id of the latest snapshot the
\* request read (0 for none), wrote_* whether it added a snapshot
NoRequests ==
    [r \in Requests |->
        [pc |-> "idle", seen_solcast |-> 0, wrote_solcast |-> FALSE,
         seen_pse |-> 0, wrote_pse |-> FALSE]]

Running == {"solcast_wait", "prices", "pse_wait"}

\* a server that runs each call of index() on a thread of its own
LoopIdle_Threaded(rs) == TRUE

\* index() is a coroutine without any await, called on the one event loop of
\* uvicorn.run(app): the loop calls it only when no other call of it is open
LoopIdle(rs) == \A r \in Requests : rs[r].pc \notin Running

LatestId(tbl) ==
    IF tbl = <<>> THEN 0 ELSE RecentRecords(tbl, 1)[1].id

----------------------------------------------------------------------------
(* database.py: the key-value cache *)

MaxKeys == 2
Keys == 1..MaxKeys

CacheMinutes == 60

\* the values given to cache_data: JSON documents
CacheValues == {JsonNull, JsonNumber(1), JsonNumber(2)}

\* json.dumps(data): the text, as its tokens (0 for null, 1 and the number)
JsonDumps(data) == IF data.type = "null" THEN <<0>> ELSE <<1, data.v>>

\* json.loads(text)
JsonLoads(text) == IF text[1] = 0 THEN JsonNull ELSE JsonNumber(text[2])

\* INSERT OR REPLACE on the primary key: the row of the key is replaced
InsertOrReplace(tbl, row) ==
    Append(SelectSeq(tbl, LAMBDA r : r.key # row.key), row)

\* an entry that is still returned at exactly one hour
Fresh_Inclusive(age) == age <= CacheMinutes

\* datetime.now() - timestamp < timedelta(hours=1)
Fresh(age) == age < CacheMinutes

\* SELECT data, timestamp FROM cache WHERE key = ?; fetchone()
FetchOne(tbl, key) ==
    LET rows == SelectSeq(tbl, LAMBDA r : r.key = key)
    IN  IF rows = <<>> THEN <<>> ELSE <<rows[1]>>

\* what get_cached_data(key) returns at local time current_time; None is the
\* value json null
CachedValue(tbl, key, current_time) ==
    LET result == FetchOne(tbl, key)
    IN  IF result # <<>>
           /\ Fresh(current_time - ParseIso(result[1].timestamp))
        THEN JsonLoads(result[1].data)
        ELSE JsonNull

NoStores == [k \in Keys |-> <<>>]
NoCacheCall == [called |-> FALSE, key |-> 0, result |-> JsonNull]

\* cache_data(key, data); the datetime is stored as its ISO text
CacheData(key, data) ==
    /\ cache' = InsertOrReplace(cache,
                    [key |-> key, data |-> JsonDumps(data),
                     timestamp |-> IsoFormat(now + tz)])
    /\ stored' = [stored EXCEPT ![key] = <<[value |-> data, at |-> now]>>]
    /\ cret' = NoCacheCall
    /\ UNCHANGED <<now, tz, solcast, fret, pse, pret, view, reqs>>

GetCachedData(key) ==
    /\ cret' = [called |-> TRUE, key |-> key,
                result |-> CachedValue(cache, key, now + tz)]
    /\ UNCHANGED <<now, tz, solcast, fret, pse, pret, view, reqs, cache, stored>>

----------------------------------------------------------------------------
(* The clock *)

ForecastClock ==
    {HM(4, 50), HM(5, 20), HM(5, 21), HM(6, 50), HM(23, 20),
     OnDay(1, HM(6, 50))}

TickForecast ==
    /\ \E t \in ForecastClock : t > now /\ now' = t
    /\ fret' = NoForecastCall
    /\ UNCHANGED <<solcast, tz, pse, pret, view, reqs, cache, stored, cret>>

InitForecast ==
    /\ now = HM(4, 50)
    /\ solcast = <<>>
    /\ fret = NoForecastCall
    /\ tz = 0
    /\ pse = <<>>
    /\ pret = NoPriceCall
    /\ view = NoView
    /\ reqs = NoRequests
    /\ cache = <<>>
    /\ stored = NoStores
    /\ cret = NoCacheCall

NextForecast ==
    \/ ForecastRequest
    \/ CheckDatabaseHealth
    \/ TickForecast

SpecForecast == InitForecast /\ [][NextForecast]_vars

\* payloads a row of solcast_data can hold: a series as get_solcast_data
\* writes it, records that carry period_end and no estimate, the test row of
\* check_database_health, an empty list
StoredForecasts(start) ==
    {ToRecords(RawForecast(start, MaxPoints, SlotMinutes, 10)),
     [i \in 1..MaxPoints |->
         [period_end |-> IsoFormat(start + (i - 1) * SlotMinutes)]],
     HealthCheckData,
     <<>>}

\* a database with two rows, written at 04:45 and at 05:10
InitForecastFormats ==
    /\ now = HM(5, 20)
    /\ \E older \in StoredForecasts(HM(5, 0)) :
          \E newer \in StoredForecasts(HM(5, 30)) :
              solcast = AddRow(AddRow(<<>>, HM(4, 45), older), HM(5, 10), newer)
    /\ fret = NoForecastCall
    /\ tz = 0
    /\ pse = <<>>
    /\ pret = NoPriceCall
    /\ view = NoView
    /\ reqs = NoRequests
    /\ cache = <<>>
    /\ stored = NoStores
    /\ cret = NoCacheCall

NextForecastFormats ==
    \/ ForecastRequest
    \/ TickForecast

SpecForecastFormats == InitForecastFormats /\ [][NextForecastFormats]_vars

PriceClock ==
    {HM(10, 0), HM(15, 30), HM(16, 5), HM(23, 30), OnDay(1, HM(10, 0))}

TzOffsets == {0, HM(1, 0)}

TickPrices ==
    /\ \E t \in PriceClock : t > now /\ now' = t
    /\ pret' = NoPriceCall
    /\ UNCHANGED <<solcast, fret, tz, pse, view, reqs, cache, stored, cret>>

InitPrices ==
    /\ now = HM(10, 0)
    /\ tz \in TzOffsets
    /\ solcast = <<>>
    /\ fret = NoForecastCall
    /\ pse = <<>>
    /\ pret = NoPriceCall
    /\ view = NoView
    /\ reqs = NoRequests
    /\ cache = <<>>
    /\ stored = NoStores
    /\ cret = NoCacheCall

NextPrices ==
    \/ PriceRequest
    \/ TickPrices

SpecPrices == InitPrices /\ [][NextPrices]_vars

\* index() -> get_pse_prices() against reports of every record kind
PriceRequestFormats ==
    \E rtoday \in FormatResponses(DateOf(now + tz)) :
        \E rtomorrow \in TomorrowResponses(DateOf(now + tz + DayLen)) :
            GetPsePrices(rtoday, rtomorrow)

\* the table holds one snapshot saved earlier today
InitFormats ==
    /\ now = HM(10, 0)
    /\ tz \in TzOffsets
    /\ solcast = <<>>
    /\ fret = NoForecastCall
    /\ \E data \in StoredPayloads(0) : pse = AddRow(<<>>, HM(9, 0), data)
    /\ pret = NoPriceCall
    /\ view = NoView
    /\ reqs = NoRequests
    /\ cache = <<>>
    /\ stored = NoStores
    /\ cret = NoCacheCall

NextFormats ==
    \/ PriceRequestFormats
    \/ TickPrices

SpecPriceFormats == InitFormats /\ [][NextFormats]_vars

----------------------------------------------------------------------------
(* The aggregator on series of the two reconcilers *)

\* the three estimates of a slot: no production, production
Estimates ==
    {[pv_estimate |-> 0, pv_estimate10 |-> 0, pv_estimate90 |-> 4],
     [pv_estimate |-> 8, pv_estimate10 |-> 4, pv_estimate90 |-> 12]}

SolarStarts == {HM(21, 30), HM(21, 45), HM(22, 15)}

\* what get_solcast_data returns: points on the 15-minute grid, instants UTC
SolarSeries ==
    {[i \in 1..MaxSlots |->
         [period_end |-> start + (i - 1) * SlotMinutes,
          pv_estimate |-> est[i].pv_estimate,
          pv_estimate10 |-> est[i].pv_estimate10,
          pv_estimate90 |-> est[i].pv_estimate90]] :
        start \in SolarStarts, est \in [1..MaxSlots -> Estimates]}
    \cup {<<>>}

PriceLevels == {4000, 8000}

\* what get_pse_prices returns when the report misses an hour: 21:00 and
\* 23:00 local time of day 0, in either order
GappedPriceLists ==
    LET early == [datetime |-> IsoFormat(HM(21, 0)), price |-> 4000]
        late == [datetime |-> IsoFormat(HM(23, 0)), price |-> 8000]
    IN  {<<early, late>>, <<late, early>>}

\* what get_pse_prices returns: hourly points from 23:00 local time of day 0
PriceLists ==
    UNION {{[i \in 1..k |->
                [datetime |-> IsoFormat(HM(23, 0) + (i - 1) * HM(1, 0)),
                 price |-> level[i]]] :
               level \in [1..k -> PriceLevels]} : k \in 0..MaxPrices}
    \cup GappedPriceLists

\* Europe/Warsaw: UTC+1, or UTC+2 in summer
WarsawOffsets == {HM(1, 0), HM(2, 0)}

IndexClock == {HM(21, 0), HM(22, 0), HM(22, 15), HM(23, 0)}

\* index() after the two reconcilers have returned; it keeps nothing from an
\* earlier request, so one request is followed for each instant
Index(solar, prices) ==
    /\ ~view.called
    /\ view' = IndexView(solar, prices, now, tz)
    /\ UNCHANGED <<now, tz, solcast, fret, pse, pret, reqs, cache, stored, cret>>

IndexRequest ==
    \E solar \in SolarSeries : \E prices \in PriceLists : Index(solar, prices)

TickIndex ==
    /\ \E t \in IndexClock : t > now /\ now' = t
    /\ view' = NoView
    /\ UNCHANGED <<tz, solcast, fret, pse, pret, reqs, cache, stored, cret>>

InitIndex ==
    /\ now = HM(21, 0)
    /\ tz \in WarsawOffsets
    /\ solcast = <<>>
    /\ fret = NoForecastCall
    /\ pse = <<>>
    /\ pret = NoPriceCall
    /\ view = NoView
    /\ reqs = NoRequests
    /\ cache = <<>>
    /\ stored = NoStores
    /\ cret = NoCacheCall

NextIndex ==
    \/ IndexRequest
    \/ TickIndex

SpecIndex == InitIndex /\ [][NextIndex]_vars

----------------------------------------------------------------------------
(* Requests served by the event loop *)

LoopClock == {HM(15, 30), HM(16, 5)}

FailedFetch == [ok |-> FALSE, forecasts |-> <<>>]
FailedRequest == [status |-> "error", value |-> <<>>]

LoopForecastResponses(t) ==
    {[ok |-> TRUE,
      forecasts |-> RawForecast(NextSlot(t), MaxPoints, SlotMinutes, 10)],
     FailedFetch}

LoopPriceResponses(d) ==
    {[status |-> "ok", value |-> [i \in 1..MaxPrices |-> PriceRecord(d, i)]],
     FailedRequest}

\* a client sends a request; the server accepts the connection
Arrive(r) ==
    /\ reqs[r].pc = "idle"
    /\ reqs' = [reqs EXCEPT ![r] = [NoRequests[r] EXCEPT !.pc = "pending"]]
    /\ UNCHANGED <<now, tz, solcast, fret, pse, pret, view, cache, stored, cret>>

\* the loop calls index(): get_solcast_data runs up to its requests.get, or to
\* its return when the latest snapshot is fresh
Start(r) ==
    /\ reqs[r].pc = "pending"
    /\ LoopIdle(reqs)
    /\ \E d \in {SolcastCall(solcast, now, FailedFetch)} :
          IF d.should_fetch_new
          THEN /\ reqs' = [reqs EXCEPT ![r].pc = "solcast_wait",
                                       ![r].seen_solcast = LatestId(solcast)]
               /\ UNCHANGED <<solcast, fret>>
          ELSE /\ reqs' = [reqs EXCEPT ![r].pc = "prices",
                                       ![r].seen_solcast = LatestId(solcast)]
               /\ solcast' = d.after
               /\ fret' = d
    /\ UNCHANGED <<now, tz, pse, pret, view, cache, stored, cret>>

\* requests.get of get_solcast_data returns or raises; the call finishes
SolcastResponse(r, resp) ==
    /\ reqs[r].pc = "solcast_wait"
    /\ \E d \in {SolcastCall(solcast, now, resp)} :
          /\ Len(d.after) <= MaxStore
          /\ solcast' = d.after
          /\ fret' = d
          /\ reqs' = [reqs EXCEPT ![r].pc = "prices",
                                  ![r].wrote_solcast = d.written # <<>>]
    /\ UNCHANGED <<now, tz, pse, pret, view, cache, stored, cret>>

\* get_pse_prices runs up to its requests.get, or to its return when the
\* latest snapshot is served
BeginPrices(r) ==
    /\ reqs[r].pc = "prices"
    /\ \E d \in {PseCall(pse, now, now + tz, FailedRequest, FailedRequest)} :
          IF d.upstream_calls > 0
          THEN /\ reqs' = [reqs EXCEPT ![r].pc = "pse_wait",
                                       ![r].seen_pse = LatestId(pse)]
               /\ UNCHANGED <<pse, pret>>
          ELSE /\ reqs' = [reqs EXCEPT ![r].pc = "done",
                                       ![r].seen_pse = LatestId(pse)]
               /\ pse' = d.after
               /\ pret' = d
    /\ UNCHANGED <<now, tz, solcast, fret, view, cache, stored, cret>>

\* the requests.get calls of get_pse_prices return or raise; index() finishes
PseResponse(r, rtoday, rtomorrow) ==
    /\ reqs[r].pc = "pse_wait"
    /\ \E d \in {PseCall(pse, now, now + tz, rtoday, rtomorrow)} :
          /\ Len(d.after) <= MaxStore
          /\ pse' = d.after
          /\ pret' = d
          /\ reqs' = [reqs EXCEPT ![r].pc = "done",
                                  ![r].wrote_pse = d.written # <<>>]
    /\ UNCHANGED <<now, tz, solcast, fret, view, cache, stored, cret>>

TickLoop ==
    /\ LoopIdle(reqs)
    /\ \E t \in LoopClock : t > now /\ now' = t
    /\ fret' = NoForecastCall
    /\ pret' = NoPriceCall
    /\ UNCHANGED <<tz, solcast, pse, view, reqs, cache, stored, cret>>

InitLoop ==
    /\ now = HM(15, 30)
    /\ tz = 0
    /\ solcast = <<>>
    /\ fret = NoForecastCall
    /\ pse = <<>>
    /\ pret = NoPriceCall
    /\ view = NoView
    /\ reqs = NoRequests
    /\ cache = <<>>
    /\ stored = NoStores
    /\ cret = NoCacheCall

\* the loop's own steps
LoopStep == \E r \in Requests : Start(r) \/ BeginPrices(r)

\* the steps of clients and of the two providers
OutsideStep ==
    \E r \in Requests :
        \/ Arrive(r)
        \/ \E resp \in LoopForecastResponses(now) : SolcastResponse(r, resp)
        \/ \E rtoday \in LoopPriceResponses(DateOf(now + tz)) :
              \E rtomorrow \in LoopPriceResponses(DateOf(now + tz + DayLen)) :
                  PseResponse(r, rtoday, rtomorrow)

NextLoop ==
    \/ LoopStep
    \/ OutsideStep
    \/ TickLoop

SpecLoop == InitLoop /\ [][NextLoop]_vars

\* the loop runs a call that can run; requests.get is given no timeout, and
\* nothing makes a provider answer
SpecLoopFair == SpecLoop /\ WF_vars(LoopStep)

----------------------------------------------------------------------------
(* Calls of the key-value cache *)

CacheClock == {HM(10, 0), HM(10, 30), HM(11, 0), HM(11, 29), HM(11, 30)}

TickCache ==
    /\ \E t \in CacheClock : t > now /\ now' = t
    /\ cret' = NoCacheCall
    /\ UNCHANGED <<tz, solcast, fret, pse, pret, view, reqs, cache, stored>>

InitCache ==
    /\ now = HM(10, 0)
    /\ tz \in TzOffsets
    /\ solcast = <<>>
    /\ fret = NoForecastCall
    /\ pse = <<>>
    /\ pret = NoPriceCall
    /\ view = NoView
    /\ reqs = NoRequests
    /\ cache = <<>>
    /\ stored = NoStores
    /\ cret = NoCacheCall

NextCache ==
    \/ \E key \in Keys : \E data \in CacheValues : CacheData(key, data)
    \/ \E key \in Keys : GetCachedData(key)
    \/ TickCache

SpecCache == InitCache /\ [][NextCache]_vars

----------------------------------------------------------------------------
(* Properties of get_solcast_data *)

ForecastServed == fret.called /\ fret.df # <<>>
PrevPoints == IF fret.previous = <<>> THEN {}
              ELSE Range(FromRecords(fret.previous[1].data))
\* the points of the previous snapshot dated today and before the candidate's start
Eligible == {p \in PrevPoints :
                /\ DateOf(p.period_end) = DateOf(now)
                /\ p.period_end < IndexMin(fret.candidate)}
Added == {i \in DOMAIN fret.df : fret.df[i] \notin Range(fret.candidate)}
RowsRead == Range(RecentRecords(fret.before, ReadLimit))

\* C1: an upstream forecast fetch is issued exactly when there is no valid
\* latest snapshot or it is more than 30 minutes old; at 30 minutes or less
\* the latest snapshot is the series served and nothing is fetched.
C1_FetchIffStale ==
    fret.called =>
        /\ (fret.upstream_calls > 0) <=>
              (\/ fret.latest = <<>>
               \/ now - fret.latest[1].timestamp > StaleMinutes)
        /\ fret.upstream_calls <= 1
        /\ (fret.latest # <<>> /\ now - fret.latest[1].timestamp <= StaleMinutes)
              => /\ fret.upstream_calls = 0
                 /\ fret.candidate = FromRecords(fret.latest[1].data)

C1_Witness ==
    /\ fret.called
    /\ fret.latest # <<>>
    /\ now - fret.latest[1].timestamp = StaleMinutes
    /\ fret.upstream_calls = 0
    /\ fret.df # <<>>

\* C2: a call writes a snapshot only if its upstream fetch succeeded, and
\* every snapshot written carries fetched_at = now.
C2_WriteOnlyOnFreshFetch ==
    fret.called =>
        /\ fret.written # <<>> => fret.fetch_ok
        /\ \A i \in DOMAIN fret.written : fret.written[i].timestamp = now

\* C3: the call returns an empty series only if the store held no valid
\* snapshot and the upstream fetch failed; a failed fetch with a valid latest
\* snapshot returns that snapshot's points.
C3_EmptyOnlyIfNothingValid ==
    fret.called =>
        /\ fret.df = <<>> =>
              /\ \A r \in Range(fret.before) : ~ValidRow(r)
              /\ fret.upstream_calls > 0 /\ ~fret.fetch_ok
        /\ (fret.upstream_calls > 0 /\ ~fret.fetch_ok /\ fret.latest # <<>>)
              => Range(FromRecords(fret.latest[1].data)) \subseteq Range(fret.df)

\* C4: backfill only adds points of the previous snapshot that are dated
\* today and lie strictly before the candidate's earliest point; every
\* candidate point is kept as it was, once.
C4_BackfillOnlyPrepends ==
    ForecastServed =>
        /\ \A i \in Added : fret.df[i] \in Eligible
        /\ \A i \in Added : /\ DateOf(fret.df[i].period_end) <= DateOf(now)
                            /\ fret.df[i].period_end < IndexMin(fret.candidate)
        /\ \A j \in DOMAIN fret.candidate :
              \E i \in DOMAIN fret.df :
                  /\ fret.df[i] = fret.candidate[j]
                  /\ \A k \in DOMAIN fret.df :
                        fret.df[k].period_end = fret.candidate[j].period_end
                            => k = i

C4_Witness ==
    /\ ForecastServed
    /\ Added # {}
    /\ PrevPoints \ Eligible # {}

\* C5: when the candidate's earliest point is later than 05:00 of today and a
\* valid previous snapshot exists, the returned series holds every point of
\* the previous snapshot dated today and before that earliest point.
C5_BackfillWheneverLate ==
    (/\ ForecastServed
     /\ fret.previous # <<>>
     /\ IndexMin(fret.candidate) > OnDay(DateOf(now), HM(ExpectedStartHour, 0)))
        => Eligible \subseteq Range(fret.df)

QuarterHours(from, n) == {from + (i - 1) * SlotMinutes : i \in 1..n}

\* C6: with the candidate starting at 07:00 today and the previous snapshot
\* holding 05:00, 05:15, ..., 06:45 of today, exactly those 8 points are
\* prepended and the series returned starts at 05:00; whenever points are
\* prepended the series starts at the earliest of them.
C6_SevenOClockScenario ==
    ForecastServed =>
        /\ (/\ fret.previous # <<>>
            /\ IndexMin(fret.candidate) = OnDay(DateOf(now), HM(7, 0))
            /\ {p.period_end : p \in Eligible}
                   = QuarterHours(OnDay(DateOf(now), HM(5, 0)), 8))
              => /\ {fret.df[i].period_end : i \in Added}
                       = QuarterHours(OnDay(DateOf(now), HM(5, 0)), 8)
                 /\ Cardinality(Added) = 8
                 /\ \A i \in Added : i <= 8
                 /\ IndexMin(fret.df) = OnDay(DateOf(now), HM(5, 0))
        /\ Added # {} =>
              /\ \A i \in Added : fret.df[1].period_end <= fret.df[i].period_end
              /\ 1 \in Added
              /\ IndexMin(fret.df) = fret.df[1].period_end

C6_Witness ==
    /\ ForecastServed
    /\ fret.previous # <<>>
    /\ IndexMin(fret.candidate) = OnDay(DateOf(now), HM(7, 0))
    /\ {p.period_end : p \in Eligible}
           = QuarterHours(OnDay(DateOf(now), HM(5, 0)), 8)
    /\ Cardinality(Added) = 8
    /\ IndexMin(fret.df) = OnDay(DateOf(now), HM(5, 0))

\* C7: with a previous snapshot that has no point of today before the
\* candidate's earliest point, or with a snapshot read that fails validation,
\* there is no backfill and the candidate is returned as it is; an invalid
\* snapshot does not keep the valid one from being returned.
C7_NoBackfillWithoutMorning ==
    ForecastServed =>
        /\ (fret.previous # <<>> /\ Eligible = {}) => fret.df = fret.candidate
        /\ (\E r \in RowsRead : ~ValidRow(r)) =>
              /\ fret.df = fret.candidate
              /\ \A r \in RowsRead :
                    (ValidRow(r) /\ ~fret.fetch_ok)
                        => fret.df = FromRecords(r.data)

C7_Witness ==
    /\ ForecastServed
    /\ fret.previous # <<>>
    /\ PrevPoints # {}
    /\ Eligible = {}
    /\ StartsLate(IndexMin(fret.candidate), DateOf(now))
    /\ \E p \in PrevPoints : p.period_end < IndexMin(fret.candidate)
    /\ fret.df = fret.candidate

\* the other case of C7: a row read failed validation and the valid one is served
C7_InvalidReadServed ==
    /\ ForecastServed
    /\ \E r \in RowsRead : ~ValidRow(r)
    /\ ~fret.fetch_ok
    /\ fret.latest # <<>>
    /\ fret.df = FromRecords(fret.latest[1].data)

----------------------------------------------------------------------------
(* Properties of get_pse_prices *)

\* a fetch attempt succeeded: the provider answered with at least one usable record
AttemptSucceeded(parsed) == parsed # <<>>
PayloadDates == IF pret.latest = <<>> THEN {}
                ELSE {DateOf(ParseIso(pret.latest[1].data[i].datetime)) :
                         i \in DOMAIN pret.latest[1].data}
LocalNow == now + tz

C9_EmptyOnlyIfAllFetchesFail ==
    pret.called =>
        /\ pret.result = <<>> =>
              /\ pret.latest = <<>>
              /\ ~AttemptSucceeded(pret.today)
        /\ (/\ pret.latest = <<>>
            /\ HourOf(LocalNow) >= PublicationHour
            /\ AttemptSucceeded(pret.today)
            /\ pret.outcome = "tomorrow_error")
              => pret.result = pret.today

\* C10: in the refetch procedure a non-empty combined result is persisted as
\* exactly one new snapshot and returned; an empty result or a failed fetch
\* writes nothing and returns the latest snapshot's raw payload when there is
\* one, and an empty result only when there is none.
C10_PersistOrFallBack ==
    (pret.called /\ pret.upstream_calls > 0) =>
        /\ pret.combined # <<>> =>
              /\ Len(pret.written) = 1
              /\ pret.written[1].data = pret.combined
              /\ pret.after = Append(pret.before, pret.written[1])
              /\ pret.result = pret.combined
        /\ pret.combined = <<>> =>
              /\ pret.written = <<>>
              /\ pret.after = pret.before
              /\ pret.latest # <<>> => pret.result = pret.latest[1].data
              /\ pret.latest = <<>> => pret.result = <<>>
        /\ pret.result = <<>> => pret.latest = <<>>
        /\ pse = pret.after

C10_Witness ==
    /\ pret.called
    /\ pret.upstream_calls > 0
    /\ pret.combined = <<>>
    /\ pret.latest # <<>>
    /\ pret.result = pret.latest[1].data
    /\ pret.written = <<>>

\* the points of the latest payload that parse, as the cached path returns them
ParseableCached == IF pret.latest = <<>> THEN <<>>
                   ELSE ParseCached(pret.latest[1].data)
UnparseableCached ==
    IF pret.latest = <<>> THEN {}
    ELSE {i \in DOMAIN pret.latest[1].data :
             ~CachedItemParses(pret.latest[1].data[i])}

\* C11: a point of the cached payload that fails to parse is dropped and the
\* others are returned, at any local hour; an unparseable cached point never
\* makes the call raise; when no cached point parses the call goes on to the
\* refetch procedure.
C11_UnparseableCachedPointDropped ==
    (pret.called /\ UnparseableCached # {}) =>
        /\ pret.raised => pret.upstream_calls > 0
        /\ pret.upstream_calls = 0 =>
              /\ pret.result = ParseableCached
              /\ pret.result # <<>>
        /\ ParseableCached = <<>> => pret.upstream_calls > 0

\* the records of the report received for today, and those without any defect
TodayValue == IF pret.requests = <<>> THEN <<>>
              ELSE pret.requests[1].response.value
WellFormedRecord(item) ==
    /\ IsDict(item)
    /\ HasPriceKeys(item)
    /\ TimeParses(item.udtczas_oreb)
    /\ item.rce_pln.type = "number"
Survivors == SelectSeq(TodayValue, WellFormedRecord)

\* C12: in a refetch a malformed record of the report (an item that is no
\* record, a missing key, an unparseable time, a price that is no number or is
\* null) is skipped and the other records are processed; the call falls back
\* only when no record survives, and no bad record makes it raise.
C12_MalformedRecordSkipped ==
    (/\ pret.called
     /\ pret.upstream_calls > 0
     /\ IsValueObject(pret.requests[1].response)) =>
        /\ ~pret.raised
        /\ Len(pret.today) = Len(Survivors)
        /\ pret.outcome = "no_prices" => Survivors = <<>>

RequestedDates == [i \in DOMAIN pret.requests |-> pret.requests[i].date]
Today == DateOf(LocalNow)
PersistedDates ==
    IF pret.written = <<>> THEN <<>>
    ELSE [i \in DOMAIN pret.written[1].data |->
             DateOf(ParseIso(pret.written[1].data[i].datetime))]

\* C13: a refetch at a local hour below 16 requests only today and persists
\* only points dated today; a refetch at hour 16 or later requests today and
\* then tomorrow and persists today's points followed by tomorrow's.
C13_TodayThenTomorrow ==
    (pret.called /\ pret.upstream_calls > 0) =>
        /\ Len(pret.requests) = pret.upstream_calls
        /\ HourOf(LocalNow) < PublicationHour =>
              /\ RequestedDates = <<Today>>
              /\ \A i \in DOMAIN PersistedDates : PersistedDates[i] = Today
        /\ (HourOf(LocalNow) >= PublicationHour /\ pret.written # <<>>) =>
              /\ RequestedDates = <<Today, Today + 1>>
              /\ pret.written[1].data =
                    pret.today \o SubSeq(pret.written[1].data,
                                         Len(pret.today) + 1,
                                         Len(pret.written[1].data))
              /\ \A i \in DOMAIN PersistedDates :
                    PersistedDates[i] =
                        IF i <= Len(pret.today) THEN Today ELSE Today + 1
        /\ HourOf(LocalNow) >= PublicationHour =>
              /\ RequestedDates[1] = Today
              /\ Len(RequestedDates) = 2 => RequestedDates[2] = Today + 1

C13_Witness ==
    /\ pret.called
    /\ HourOf(LocalNow) = PublicationHour
    /\ RequestedDates = <<Today, Today + 1>>
    /\ pret.written # <<>>
    /\ pret.today # <<>>
    /\ Len(pret.written[1].data) > Len(pret.today)
    /\ PersistedDates[Len(PersistedDates)] = Today + 1

\* a record of the later report version: the day, the full time text, a price
WellFormedRecordV2(item) ==
    /\ IsDict(item)
    /\ ("business_date" \in DOMAIN item \/ "doba" \in DOMAIN item)
    /\ {"dtime", "rce_pln"} \subseteq DOMAIN item
    /\ item.rce_pln.type = "number"
\* the two shapes of a well-formed report
LegacyList(response) ==
    /\ response.status = "list"
    /\ \A i \in DOMAIN response.value : WellFormedRecord(response.value[i])
ValueObjectV2(response) ==
    /\ response.status = "ok"
    /\ \A i \in DOMAIN response.value : WellFormedRecordV2(response.value[i])

\* C14: a well-formed report of either shape, the list of records with
\* doba/udtczas_oreb/rce_pln or the object {value: [...]} of records with
\* business_date (or doba) and dtime, is accepted and gives one price point
\* for each of its records.
C14_BothShapesAccepted ==
    (/\ pret.called
     /\ pret.upstream_calls > 0
     /\ \/ LegacyList(pret.requests[1].response)
        \/ ValueObjectV2(pret.requests[1].response)) =>
        /\ pret.outcome # "today_malformed"
        /\ Len(pret.today) = Len(TodayValue)

\* C15: the instant of a price record is its date with the start of its time
\* field: of a period "HH:MM - HH:MM" only the start counts, so the record of
\* day d with period "00:00 - 00:15" gives d at 00:00:00, and a plain "HH:MM"
\* gives that time on that day.
C15_InstantIsPeriodStart ==
    (/\ pret.called
     /\ pret.upstream_calls > 0
     /\ IsValueObject(pret.requests[1].response)
     /\ ~pret.raised) =>
        /\ Len(pret.today) = Len(Survivors)
        /\ \A k \in DOMAIN Survivors :
              LET r == Survivors[k]
                  t == r.udtczas_oreb
              IN  /\ pret.today[k].datetime
                        = <<r.doba, t[1] \div 60, t[1] % 60>>
                  /\ t = <<HM(0, 0), HM(0, 15)>>
                        => pret.today[k].datetime = <<r.doba, 0, 0>>
                  /\ Len(t) = 1
                        => ParseIso(pret.today[k].datetime) = OnDay(r.doba, t[1])

C15_Witness ==
    /\ pret.called
    /\ ~pret.raised
    /\ \E k \in DOMAIN Survivors :
          /\ Survivors[k].udtczas_oreb = <<HM(0, 0), HM(0, 15)>>
          /\ k \in DOMAIN pret.today
          /\ pret.today[k].datetime = <<Today, 0, 0>>
    /\ pret.written # <<>>

\* the other case of C15: a record with a plain time was parsed
C15_PlainTimeParsed ==
    /\ pret.called
    /\ ~pret.raised
    /\ \E k \in DOMAIN Survivors :
          /\ Len(Survivors[k].udtczas_oreb) = 1
          /\ k \in DOMAIN pret.today

----------------------------------------------------------------------------
(* Properties of the aggregator *)

Rendered == view.called /\ view.status = 200
\* the instants of the price points, minutes UTC
PriceInstants == {ParseIso(view.prices[i].datetime) - tz : i \in DOMAIN view.prices}
FirstPriceInstant == CHOOSE t \in PriceInstants : \A u \in PriceInstants : t <= u
\* the price of the latest price point at or before instant t
PriceAtOrBefore(t) ==
    LET at == CHOOSE u \in PriceInstants :
                  u <= t /\ \A w \in PriceInstants : w <= t => w <= u
        k == CHOOSE i \in DOMAIN view.prices :
                  ParseIso(view.prices[i].datetime) - tz = at
    IN  view.prices[k].price
\* the points handed to the template
OutputPoints == view.solar_data_today \o view.solar_data_tomorrow

\* C16: a forecast slot earlier than the first price timestamp gets no price,
\* and it is left out of the valuation output: it is not among the valued
\* points, neither with a missing value nor with any other.
C16_UnpricedSlotsExcluded ==
    Rendered =>
        \A s \in DOMAIN view.forecast :
            view.forecast[s].period_end < FirstPriceInstant =>
                /\ \A i \in DOMAIN view.valued :
                      view.valued[i].period_end = view.forecast[s].period_end
                          => view.valued[i].value = NaN
                /\ \A i \in DOMAIN view.valued :
                      view.valued[i].period_end # view.forecast[s].period_end
                /\ \A j \in DOMAIN OutputPoints :
                      ParseIsoTz(OutputPoints[j].period_end)
                          # view.forecast[s].period_end

\* C17: every forecast slot at or after the first price timestamp, those
\* after the last price timestamp included, has the value
\* pv_estimate * p / 1000 * 0.25, p being the latest price at or before the
\* slot.
C17_ValueIsForwardFilledPrice ==
    Rendered =>
        \A i \in DOMAIN view.valued :
            view.valued[i].period_end >= FirstPriceInstant =>
                view.valued[i].value =
                    Num(Quarter((view.valued[i].pv_estimate
                                    * PriceAtOrBefore(view.valued[i].period_end))
                                \div KWhPerMWh))

\* value / pv_estimate, 0 at a point without production, missing when the
\* value is missing
Ratio(row) ==
    IF row.pv_estimate = 0 THEN Num(0)
    ELSE IF row.value = NaN THEN NaN
    ELSE Num(row.value[1] \div row.pv_estimate)
Times(x, ratio) == IF ratio = NaN THEN NaN ELSE Num(x * ratio[1])

\* C18: at every point value10 = pv_estimate10 * ratio and
\* value90 = pv_estimate90 * ratio with ratio = value / pv_estimate, the ratio
\* being 0 where pv_estimate is 0, so that both are 0 there.
C18_PercentileValuesByRatio ==
    Rendered =>
        \A i \in DOMAIN view.solar_data :
            LET row == view.solar_data[i]
            IN  /\ Num(row.value10) = Times(row.pv_estimate10, Ratio(row))
                /\ Num(row.value90) = Times(row.pv_estimate90, Ratio(row))
                /\ row.pv_estimate = 0 => row.value10 = 0 /\ row.value90 = 0

\* the sum of f over the slots in S
RECURSIVE SlotSum(_, _)
SlotSum(S, f) ==
    IF S = {} THEN 0
    ELSE LET x == CHOOSE y \in S : TRUE IN f[x] + SlotSum(S \ {x}, f)
\* the columns of the merged series, slot by slot; a slot without a value
\* adds nothing to a sum
Pv == [i \in DOMAIN view.solar_data |-> view.solar_data[i].pv_estimate]
Pv10 == [i \in DOMAIN view.solar_data |-> view.solar_data[i].pv_estimate10]
Pv90 == [i \in DOMAIN view.solar_data |-> view.solar_data[i].pv_estimate90]
Value == [i \in DOMAIN view.solar_data |->
             IF view.solar_data[i].value = NaN THEN 0
             ELSE view.solar_data[i].value[1]]
Value10 == [i \in DOMAIN view.solar_data |-> view.solar_data[i].value10]
Value90 == [i \in DOMAIN view.solar_data |-> view.solar_data[i].value90]
\* the local calendar day of slot i, and the slots of a day
DayOfSlot(i) == (view.solar_data[i].period_end + tz) \div DayLen
SlotsOf(day) == {i \in DOMAIN view.solar_data : DayOfSlot(i) = day}

\* C19: for every local calendar day of the merged series the daily energy is
\* the sum over the day's slots of pv_estimate * 0.25 and the daily value is
\* the sum of the slots' values, likewise for the p10 and p90 columns, and
\* every slot counts for exactly one day.
C19_DailyTotalsAreSlotSums ==
    Rendered =>
        /\ \A i \in DOMAIN view.solar_data :
              /\ DayOfSlot(i) \in DOMAIN view.daily_totals
              /\ Cardinality({day \in DOMAIN view.daily_totals :
                                 i \in SlotsOf(day)}) = 1
        /\ \A day \in DOMAIN view.daily_totals :
              LET total == view.daily_totals[day]
              IN  /\ 4 * total.energy = SlotSum(SlotsOf(day), Pv)
                  /\ 4 * total.energy10 = SlotSum(SlotsOf(day), Pv10)
                  /\ 4 * total.energy90 = SlotSum(SlotsOf(day), Pv90)
                  /\ total.value = SlotSum(SlotsOf(day), Value)
                  /\ total.value10 = SlotSum(SlotsOf(day), Value10)
                  /\ total.value90 = SlotSum(SlotsOf(day), Value90)

C19_Witness ==
    /\ Rendered
    /\ Cardinality(DOMAIN view.daily_totals) = 2
    /\ \A day \in DOMAIN view.daily_totals :
          /\ SlotsOf(day) # {}
          /\ view.daily_totals[day].energy > 0
          /\ view.daily_totals[day].value > 0

\* today's slots at or before now, and after now
TodaySlots == SlotsOf((now + tz) \div DayLen)
SlotsUntilNow == {i \in TodaySlots : view.solar_data[i].period_end <= now}
SlotsAfterNow == {i \in TodaySlots : view.solar_data[i].period_end > now}
TodayTotal(column) ==
    IF view.today \in DOMAIN view.daily_totals
    THEN view.daily_totals[view.today][column] ELSE 0

\* C20: today's points are split at now: a point at or before now counts only
\* as produced, a later one only as remaining, so that produced + remaining
\* is today's daily energy, for the central estimate and both percentiles.
C20_ProducedPlusRemaining ==
    Rendered =>
        /\ 4 * view.produced_energy = SlotSum(SlotsUntilNow, Pv)
        /\ 4 * view.remaining_energy = SlotSum(SlotsAfterNow, Pv)
        /\ 4 * view.produced_energy10 = SlotSum(SlotsUntilNow, Pv10)
        /\ 4 * view.remaining_energy10 = SlotSum(SlotsAfterNow, Pv10)
        /\ 4 * view.produced_energy90 = SlotSum(SlotsUntilNow, Pv90)
        /\ 4 * view.remaining_energy90 = SlotSum(SlotsAfterNow, Pv90)
        /\ view.produced_energy + view.remaining_energy = TodayTotal("energy")
        /\ view.produced_energy10 + view.remaining_energy10
              = TodayTotal("energy10")
        /\ view.produced_energy90 + view.remaining_energy90
              = TodayTotal("energy90")

C20_Witness ==
    /\ Rendered
    /\ view.produced_energy > 0
    /\ view.remaining_energy > 0
    /\ \E i \in TodaySlots :
          /\ view.solar_data[i].period_end = now
          /\ view.solar_data[i].pv_estimate > 0
    /\ view.today \in DOMAIN view.daily_totals

\* today's prices as instants, and the hour now falls in
PricesToday ==
    {i \in DOMAIN view.prices :
        ParseIso(view.prices[i].datetime) \div DayLen = (now + tz) \div DayLen}
HourNow == ((now + tz) \div 60) * 60 - tz
Distance(i) ==
    LET d == (ParseIso(view.prices[i].datetime) - tz) - HourNow
    IN  IF d < 0 THEN -d ELSE d

----------------------------------------------------------------------------
(* C22 *)

InFlight(wait) == {r \in Requests : reqs[r].pc = wait}

----------------------------------------------------------------------------
(* C23 *)

Waiting(r) == reqs[r].pc \in {"solcast_wait", "pse_wait"}

\* C23: every call of get_solcast_data and of get_pse_prices eventually
\* returns: a request that waits for a provider does not wait forever
C23_EveryCallReturns ==
    \A r \in Requests : Waiting(r) ~> ~Waiting(r)

----------------------------------------------------------------------------
(* C24 *)

\* every row of the table is still in it, with its data and timestamp
Preserved(tbl, after) == \A r \in Range(tbl) : r \in Range(after)

\* C24: the tables are append-only: no step deletes or changes a stored
\* snapshot, each one stays with its payload and its time of fetching
C24_AppendOnly ==
    [][Preserved(solcast, solcast') /\ Preserved(pse, pse')]_vars

----------------------------------------------------------------------------
(* C25 *)

\* the fields of a forecast point; pv_estimate stands for the three estimates
ForecastPointFields == {"period_end", "pv_estimate"}

WellFormedSnapshot(data) ==
    /\ Len(data) > 0
    /\ \A i \in DOMAIN data : ForecastPointFields \subseteq DOMAIN data[i]

\* C25: a stored snapshot is used as latest or previous only if its payload is
\* a non-empty list whose records all have the fields of a forecast point, and
\* every point get_solcast_data returns has these fields
C25_OnlyWellFormedSnapshotsUsed ==
    fret.called =>
        /\ \A s \in Range(fret.latest \o fret.previous) :
              WellFormedSnapshot(s.data)
        /\ \A i \in DOMAIN fret.df :
              ForecastPointFields \subseteq DOMAIN fret.df[i]

----------------------------------------------------------------------------
(* C26 *)

\* C26: the series get_solcast_data returns has strictly increasing period
\* ends, hence no instant twice, also after a merge of morning rows
C26_StrictlyIncreasing ==
    fret.called =>
        \A i \in 1..(Len(fret.df) - 1) :
            fret.df[i].period_end < fret.df[i + 1].period_end

\* a call answered from the table whose result has morning rows of the
\* previous snapshot in front of the latest one
C26_Witness ==
    /\ fret.called
    /\ ~fret.fetch_ok
    /\ fret.previous # <<>>
    /\ Len(fret.df) > Len(fret.candidate)
    /\ fret.df[1].period_end < IndexMin(fret.candidate)

----------------------------------------------------------------------------
(* C27 *)

\* one point on every 15-minute instant from the first to the last
OnGrid(df) ==
    /\ df # <<>>
    /\ df[1].period_end % SlotMinutes = 0
    /\ \A i \in 1..(Len(df) - 1) :
          df[i + 1].period_end = df[i].period_end + SlotMinutes

\* C27: resampling a series that is already on the 15-minute grid returns the
\* same instants with the same values
C27_ResampleIdempotent ==
    (fret.fetch_ok /\ OnGrid(fret.candidate))
        => Resample15(fret.candidate) = fret.candidate

\* a fetched series of several points, on the grid after its resampling
C27_Witness ==
    /\ fret.fetch_ok
    /\ OnGrid(fret.candidate)
    /\ Len(fret.candidate) >= MaxPoints

----------------------------------------------------------------------------
(* C28 *)

\* the fields a valued point adds to a forecast point; the template names
\* value_p10 and value_p90 as value10 and value90
ValuedPointFields == {"value", "value10", "value90"}

PresentedPoints == Range(view.solar_data_today \o view.solar_data_tomorrow)

\* C28: every point of the lists of today and of tomorrow that index hands
\* to the template carries value, value10 and value90
C28_PresentedPointsAreValued ==
    view.status = 200 =>
        \A r \in PresentedPoints : ValuedPointFields \subseteq DOMAIN r

----------------------------------------------------------------------------
(* C29 *)

\* C29: one call of get_solcast_data adds at most one row to the table; after
\* a fetch that was backfilled and saved the second pass saves nothing
C29_AtMostOneWrite ==
    fret.called =>
        /\ Len(fret.written) <= 1
        /\ Len(fret.after) <= Len(fret.before) + 1

\* a fetch whose result got morning rows of the previous snapshot and was saved
C29_Witness ==
    /\ fret.fetch_ok
    /\ Len(fret.df) > Len(fret.candidate)
    /\ Len(fret.written) = 1
    /\ fret.written[1].data = ToRecords(fret.df)

----------------------------------------------------------------------------
(* C30 *)

\* the call that has just returned fetched a forecast and saved it
FetchedAndSaved == fret.called /\ fret.fetch_ok /\ fret.written # <<>>

\* the next step is a call of get_solcast_data at the same instant, on the
\* table as the first call left it
CalledAgain ==
    /\ now' = now
    /\ fret'.called
    /\ fret'.before = fret.after

\* C30: a call that follows a fetched and saved one within the staleness
\* window, with no other write in between, returns the series the first call
\* returned
C30_StableReads ==
    [][(FetchedAndSaved /\ CalledAgain) => fret'.df = fret.df]_vars

----------------------------------------------------------------------------
(* C31 *)

\* the call that has just returned fetched prices and saved them
PricesFetchedAndSaved == pret.called /\ pret.written # <<>>

\* the next step is a call of get_pse_prices at the same instant, on the
\* table as the first call left it
PricesCalledAgain ==
    /\ now' = now
    /\ tz' = tz
    /\ pret'.called
    /\ pret'.before = pret.after

\* the local hour is before 16, or the saved payload has a point of tomorrow
TomorrowNotDue ==
    \/ HourOf(now + tz) < PublicationHour
    \/ DateOf(now + tz + DayLen) \in CachedDates(pret.written[1].data)

\* C31: a call of get_pse_prices that follows, at the same local time and with
\* no other write, a call that fetched and saved makes no upstream request and
\* writes nothing, when the hour is before 16 or the saved payload has a point
\* of the next day
C31_SecondCallServedFromCache ==
    [][(PricesFetchedAndSaved /\ TomorrowNotDue /\ PricesCalledAgain)
          => /\ pret'.upstream_calls = 0
             /\ pret'.written = <<>>
             /\ pse' = pse]_vars

----------------------------------------------------------------------------
(* C32 *)

\* the value last stored under the key if less than an hour has passed since,
\* None otherwise and for a key never stored
Expected(key) ==
    IF stored[key] # <<>> /\ now - stored[key][1].at < CacheMinutes
    THEN stored[key][1].value
    ELSE JsonNull

EntriesOf(key) == {i \in DOMAIN cache : cache[i].key = key}

\* C32: get_cached_data(key) returns the value last stored under the key if
\* and only if less than one hour has passed since that call, None otherwise;
\* the table has at most one row for a key, and a store under one key leaves
\* what the other keys return as it was
C32_CacheSemantics ==
    /\ \A key \in Keys : CachedValue(cache, key, now + tz) = Expected(key)
    /\ cret.called => cret.result = Expected(cret.key)
    /\ \A key \in Keys : Cardinality(EntriesOf(key)) <= 1

\* a key whose value is returned while another key, stored at least an hour
\* ago, has expired
C32_Witness ==
    \E k1, k2 \in Keys :
        /\ k1 # k2
        /\ cret.called /\ cret.key = k1
        /\ stored[k1] # <<>> /\ cret.result = stored[k1][1].value
        /\ cret.result # JsonNull
        /\ stored[k2] # <<>> /\ now - stored[k2][1].at >= CacheMinutes
        /\ CachedValue(cache, k2, now + tz) = JsonNull

====
